---- MODULE Spec2Model ----
(***************************************************************************)
(* Token lifecycle and request dispatch of the spotify-rs client           *)
(* (spotify-rs/src/client.rs, spotify-rs/src/auth.rs).                      *)
(*                                                                         *)
(* One client is constructed by one of the flow-specific constructors and  *)
(* is then used concurrently by the tasks of Tasks.  The token lives       *)
(* behind a std::sync::RwLock; guards are modelled explicitly so that the  *)
(* points where a task is suspended on the network are visible together    *)
(* with the guards it holds.                                               *)
(***************************************************************************)
EXTENDS Integers, Sequences, FiniteSets, TLC

\* ------------------------------------------------------------------------
\* Bounds of the model
\* ------------------------------------------------------------------------

\* Calls made on the authenticated client, over all tasks.
MaxCalls == 2

\* Last instant of the wall clock (Utc::now() ranges over StartTime..MaxTime).
MaxTime == 2

\* Width of the integers of the expiry arithmetic, scaled down from 64:
\* u64 is 0..2^Bits - 1 and i64 is -2^(Bits-1)..2^(Bits-1) - 1.
Bits == 6

\* Milliseconds in a second, scaled down from 1000: chrono keeps a Duration in
\* i64 milliseconds, so Duration::seconds takes at most i64::MAX / 1000.
MillisPerSec == 4

\* Longest response body, in chunks.
MaxBody == 2

\* Most pages a paged collection has.
MaxPages == 3

\* Last instant a DateTime<Utc> can hold, scaled down (chrono: year 262142,
\* far below i64::MAX / 1000 seconds).
MaxDateTime == 5

\* ------------------------------------------------------------------------
\* Values
\* ------------------------------------------------------------------------

None == "None"

\* An absent token, an absent access secret, an absent state parameter.
NoToken == <<>>
NoSecret == <<>>
NoState == <<None>>

\* The tasks that share the client, in the order in which they first call it.
Tasks == {1, 2}

\* DateTime<Utc>::default(), the value of a #[serde(skip)] timestamp.
Epoch == 0

\* The instant at which the program starts.
StartTime == 1

\* Characters of a state parameter; " " stands for any whitespace.
WS == " "

\* Values CsrfToken::new_random can return: base64url text, no whitespace.
CsrfSecrets == {<<"a", "b">>}

\* State parameters a caller may hand to authenticate.
SuppliedStates ==
    {<<"a", "b">>, <<WS, "a", "b">>, <<"a", "b", WS>>, <<WS, "a", "b", WS>>,
     <<"a", WS, "b">>, <<"a">>, <<"b", "a">>, <<>>, <<WS>>}

\* Verifiers PkceCodeChallenge::new_random_sha256 can return.
PkceVerifiers == {"v1"}

\* expires_in values of a refreshed token (seconds).
ExpiresIns == {0, 1}

\* expires_in of the first token of a client (seconds): valid when issued,
\* expired one tick later.
FirstExpiresIn == 1

\* Refresh secrets a caller may hold.
CallerRefreshTokens == {None, "RT1"}

\* The access-token secret of the n-th token the token endpoint issues; a
\* caller-made token carries AccessSecret(0).
AccessSecret(n) == <<"AT", n>>

\* Token-endpoint responses: the JSON body of the n-th successful exchange.
\* The refresh token may be omitted.
FirstResponses(n) ==
    [access_token : {AccessSecret(n)}, refresh_token : {None, "RT1"},
     expires_in : {FirstExpiresIn}]

\* A client-credentials grant carries no refresh token (RFC 6749, 4.4.3).
ClientCredsResponses(n) ==
    [access_token : {AccessSecret(n)}, refresh_token : {None},
     expires_in : {FirstExpiresIn}]

RefreshResponses(n) ==
    [access_token : {AccessSecret(n)}, refresh_token : {None, "RT2"},
     expires_in : ExpiresIns]


VARIABLES
    phase,          \* lifecycle of the client value
    auto_refresh,   \* Client::auto_refresh
    auth_state,     \* Client::auth_state: "Unauthenticated" or the Token
    auth_flow,      \* Client::auth_flow: [kind, csrf_token, pkce_verifier]
    lock,           \* the RwLock around auth_state: guard holders and poison flag
    now,            \* Utc::now()
    net,            \* calls seen by the token endpoint and the API
    ctor,           \* the constructor / authenticate call that built the client
    task,           \* per task: position and locals of its current call
    unit            \* a function examined on its own: [fn, arg, out], and its
                    \* locals where it runs in several steps

vars == <<phase, auto_refresh, auth_state, auth_flow, lock, now, net, ctor, task, unit>>

\* ------------------------------------------------------------------------
\* auth.rs: Token
\* ------------------------------------------------------------------------

U64Max == 2^Bits - 1

I64Max == 2^(Bits - 1) - 1

\* i64::try_from(expires_in).unwrap_or(i64::MAX)
SecondsOf(expires_in) == IF expires_in <= I64Max THEN expires_in ELSE I64Max

\* chrono::Duration::seconds(s) panics ("Duration::seconds out of bounds")
\* unless s is within i64::MAX / 1000 on either side.
DurationInBounds(s) ==
    /\ -(I64Max \div MillisPerSec) <= s
    /\ s <= I64Max \div MillisPerSec

\* DateTime + Duration panics ("`DateTime + Duration` overflowed") when the sum
\* is not a DateTime.
SumInBounds(created_at, s) == created_at + s <= MaxDateTime

\* The expression of Token::new and set_timestamps for expires_at, with its
\* panics: created_at + chrono::Duration::seconds(i64::try_from(expires_in)
\* .unwrap_or(i64::MAX)).
CheckedExpiresAt(created_at, expires_in) ==
    LET s == SecondsOf(expires_in) IN
    IF DurationInBounds(s) /\ SumInBounds(created_at, s)
    THEN [panic |-> FALSE, expires_at |-> created_at + s]
    ELSE [panic |-> TRUE, expires_at |-> 0]

\* The same expression where it does not panic: the instants and lifetimes of
\* the client below are small.
ExpiresAt(created_at, expires_in) == created_at + SecondsOf(expires_in)

\* serde deserialization of a token-endpoint body at instant t:
\* created_at defaults to Utc::now, expires_at is skipped (default value).
Deserialize(resp, t) ==
    [access_token  |-> resp.access_token,
     refresh_token |-> resp.refresh_token,
     expires_in    |-> resp.expires_in,
     created_at    |-> t,
     expires_at    |-> Epoch]

\* Token::new
TokenNew(access_token, refresh_token, created_at, expires_in) ==
    [access_token  |-> access_token,
     refresh_token |-> refresh_token,
     expires_in    |-> expires_in,
     created_at    |-> created_at,
     expires_at    |-> ExpiresAt(created_at, expires_in)]

\* Faulty variant: the token is used with the timestamps it was deserialized with.
set_timestamps_Skipped(tok, t) == tok

\* Token::set_timestamps at instant t
set_timestamps(tok, t) ==
    [tok EXCEPT !.created_at = t, !.expires_at = ExpiresAt(t, tok.expires_in)]

\* Faulty variant: the instant of expiry itself does not count as expired.
is_expired_Strict(tok, t) == t > tok.expires_at

\* Token::is_expired at instant t
is_expired(tok, t) == t >= tok.expires_at

\* Token::is_refreshable
is_refreshable(tok) == tok.refresh_token # None

\* ------------------------------------------------------------------------
\* str::trim on a state parameter
\* ------------------------------------------------------------------------

RECURSIVE TrimStart(_)
TrimStart(s) ==
    IF s # <<>> /\ Head(s) = WS THEN TrimStart(Tail(s)) ELSE s

RECURSIVE TrimEnd(_)
TrimEnd(s) ==
    IF s # <<>> /\ s[Len(s)] = WS THEN TrimEnd(SubSeq(s, 1, Len(s) - 1)) ELSE s

Trim(s) == TrimEnd(TrimStart(s))

\* ------------------------------------------------------------------------
\* Initial state: no client has been constructed yet
\* ------------------------------------------------------------------------

Unauthenticated == "Unauthenticated"

NoFlow == [kind |-> None, csrf_token |-> NoState, pkce_verifier |-> None]

NoCtor == [name |-> None, csrf_state |-> NoState, verifier_sent |-> None,
           url_state |-> NoState,
           code_exchanges |-> 0,
           refresh_sent |-> None, resp_refresh |-> None, probe_bearer |-> NoSecret,
           resp |-> <<>>,
           probe |-> <<>>,
           result |-> None]

IdleTask ==
    [pc            |-> "idle",
     op            |-> None,
     token_expired |-> FALSE,   \* request: token_expired
     secret        |-> NoSecret,\* request: secret
     refresh_token |-> None,    \* exchange_refresh_token: refresh_token
     token         |-> NoToken, \* exchange_refresh_token: token
     refresh_calls |-> 0,       \* refresh exchanges sent by the current call
     exchange_no   |-> 0,       \* which exchange of the token endpoint it was
     api_calls     |-> 0,       \* resource requests sent by the current call
     bearer        |-> NoSecret,\* bearer credential of the resource request
     resp_refresh  |-> None,    \* refresh token of the exchange response
     ert_result    |-> None,    \* what exchange_refresh_token returned
     stored        |-> NoToken, \* token the current call wrote to the lock
     replaced      |-> NoToken, \* token the write in progress replaces
     saw_poison    |-> FALSE,   \* an acquisition of the call found the lock poisoned
     result        |-> None]

\* No function is examined on its own.
NoUnit == [fn |-> None, arg |-> <<>>, out |-> <<>>]

\* The client before any constructor has run.
NoClient ==
    /\ phase = "start"
    /\ auto_refresh = FALSE
    /\ auth_state = Unauthenticated
    /\ auth_flow = NoFlow
    /\ lock = [readers |-> {}, writer |-> {}, poisoned |-> FALSE]
    /\ now = StartTime
    /\ net = [token_calls |-> 0, refresh_calls |-> 0, probe_calls |-> 0, calls |-> 0]
    /\ ctor = NoCtor
    /\ task = [t \in Tasks |-> IdleTask]

Init == NoClient /\ unit = NoUnit

\* Positions at which a call is suspended on the network.
NetworkPcs == {"ert_await", "req_await"}

\* The wall clock advances (Utc::now is read in seconds).  Instants are counted
\* from the one at which the client is constructed; time passes while a call is
\* suspended on the network or between calls, the synchronous sections between
\* two suspensions take no time.
Tick ==
    /\ phase \in {"exchanging", "auth"}
    /\ now < MaxTime
    /\ \A t \in Tasks : task[t].pc \in {"idle", "done"} \cup NetworkPcs
    /\ now' = now + 1
    /\ UNCHANGED <<phase, auto_refresh, auth_state, auth_flow, lock, net, ctor, task, unit>>

\* ------------------------------------------------------------------------
\* client.rs: constructors of an unauthenticated client
\* ------------------------------------------------------------------------

\* The serialisation of a query value: " " becomes "+"; the letters, digits,
\* "-" and "_" of base64url text stay as they are.
FormUrlEncode(s) == [i \in 1 .. Len(s) |-> IF s[i] = WS THEN "+" ELSE s[i]]

\* What the receiver of a URL reads out of a query value.
FormUrlDecode(q) == [i \in 1 .. Len(q) |-> IF q[i] = "+" THEN WS ELSE q[i]]

\* Faulty variant: the URL carries a state that is not the token returned.
AuthorizeUrlState_Constant(csrf_token) == FormUrlEncode(<<"s", "t">>)

\* oauth.authorize_url(CsrfToken::new_random)..url(): the `state` value of the
\* URL returned next to the token.
AuthorizeUrlState(csrf_token) == FormUrlEncode(csrf_token)

\* AuthCodeClient::new
AuthCodeNew(auto, csrf) ==
    /\ phase = "start"
    /\ phase' = "unauth"
    /\ auto_refresh' = auto
    /\ auth_flow' = [kind |-> "AuthCodeFlow", csrf_token |-> csrf, pkce_verifier |-> None]
    /\ ctor' = [NoCtor EXCEPT !.name = "AuthCodeClient::new",
                              !.url_state = AuthorizeUrlState(csrf)]
    /\ UNCHANGED <<auth_state, lock, now, net, task, unit>>

\* AuthCodePkceClient::new
AuthCodePkceNew(auto, csrf, verifier) ==
    /\ phase = "start"
    /\ phase' = "unauth"
    /\ auto_refresh' = auto
    /\ auth_flow' = [kind |-> "AuthCodePkceFlow", csrf_token |-> csrf,
                     pkce_verifier |-> verifier]
    /\ ctor' = [NoCtor EXCEPT !.name = "AuthCodePkceClient::new",
                              !.url_state = AuthorizeUrlState(csrf)]
    /\ UNCHANGED <<auth_state, lock, now, net, task, unit>>

\* ------------------------------------------------------------------------
\* client.rs: authenticate
\* ------------------------------------------------------------------------

\* Faulty variant: the state parameter is not compared.
CsrfMatches_NoCheck(csrf_state, flow) == TRUE

\* The CSRF comparison of authenticate: csrf_state.trim() against the stored secret.
CsrfMatches(csrf_state, flow) == Trim(csrf_state) = flow.csrf_token

\* Faulty variant: the verifier is cloned out and stays in the flow.
TakeVerifier_Keeps(flow) == flow

\* self.auth_flow.pkce_verifier.take(): the flow left behind.
TakeVerifier(flow) == [flow EXCEPT !.pkce_verifier = None]

\* AuthCodeClient::authenticate up to the suspension on the token endpoint.
AuthCodeAuthenticate(csrf_state) ==
    /\ phase = "unauth"
    /\ auth_flow.kind = "AuthCodeFlow"
    /\ IF ~CsrfMatches(csrf_state, auth_flow)
       THEN /\ phase' = "failed"
            /\ ctor' = [ctor EXCEPT !.name = "authenticate", !.csrf_state = csrf_state,
                                    !.result = "InvalidStateParameter"]
            /\ UNCHANGED net
       ELSE /\ phase' = "exchanging"
            /\ ctor' = [ctor EXCEPT !.name = "authenticate", !.csrf_state = csrf_state,
                                    !.code_exchanges = @ + 1]
            /\ net' = [net EXCEPT !.token_calls = @ + 1]
    /\ UNCHANGED <<auto_refresh, auth_state, auth_flow, lock, now, task, unit>>

\* AuthCodePkceClient::authenticate up to the suspension on the token endpoint.
AuthCodePkceAuthenticate(csrf_state) ==
    /\ phase = "unauth"
    /\ auth_flow.kind = "AuthCodePkceFlow"
    /\ IF ~CsrfMatches(csrf_state, auth_flow)
       THEN /\ phase' = "failed"
            /\ ctor' = [ctor EXCEPT !.name = "authenticate", !.csrf_state = csrf_state,
                                    !.result = "InvalidStateParameter"]
            /\ UNCHANGED <<net, auth_flow>>
       ELSE IF auth_flow.pkce_verifier = None
       THEN /\ phase' = "failed"
            /\ ctor' = [ctor EXCEPT !.name = "authenticate", !.csrf_state = csrf_state,
                                    !.result = "InvalidClientState"]
            /\ UNCHANGED <<net, auth_flow>>
       ELSE /\ phase' = "exchanging"
            /\ auth_flow' = TakeVerifier(auth_flow)
            /\ ctor' = [ctor EXCEPT !.name = "authenticate", !.csrf_state = csrf_state,
                                    !.verifier_sent = auth_flow.pkce_verifier,
                                    !.code_exchanges = @ + 1]
            /\ net' = [net EXCEPT !.token_calls = @ + 1]
    /\ UNCHANGED <<auto_refresh, auth_state, lock, now, task, unit>>

\* The token endpoint rejects the code exchange: `.await?` returns the error
\* and the consumed client is dropped.
ExchangeCodeError ==
    /\ phase = "exchanging"
    /\ phase' = "failed"
    /\ ctor' = [ctor EXCEPT !.result = "Authentication"]
    /\ UNCHANGED <<auto_refresh, auth_state, auth_flow, lock, now, net, task, unit>>

\* Faulty variant: the authenticated client starts from the default flag.
SelfAutoRefresh_Default(self_auto_refresh) == FALSE

\* `auto_refresh: self.auto_refresh` of the client authenticate returns.
SelfAutoRefresh(self_auto_refresh) == self_auto_refresh

\* The token endpoint answers the code exchange: set_timestamps, then the
\* authenticated client is returned with the fields of the consumed one.
ExchangeCodeOk(resp) ==
    /\ phase = "exchanging"
    /\ phase' = "auth"
    /\ auth_state' = set_timestamps(Deserialize(resp, now), now)
    /\ auto_refresh' = SelfAutoRefresh(auto_refresh)
    /\ ctor' = [ctor EXCEPT !.result = "Ok", !.csrf_state = NoState, !.resp = <<resp>>]
    /\ UNCHANGED <<auth_flow, lock, now, net, task, unit>>

\* ------------------------------------------------------------------------
\* client.rs: constructors of an authenticated client
\* ------------------------------------------------------------------------

\* Faulty variant: the token of the response is stored as it came.
KeepRefreshToken_Drop(tok, refresh_token) == tok

\* "When a refresh token is not returned, continue using the existing token."
KeepRefreshToken(tok, refresh_token) ==
    IF tok.refresh_token = None
    THEN [tok EXCEPT !.refresh_token = refresh_token]
    ELSE tok

\* ClientCredsClient::authenticate
ClientCredsAuthenticate ==
    /\ phase = "start"
    /\ net' = [net EXCEPT !.token_calls = @ + 1]
    /\ auth_flow' = [NoFlow EXCEPT !.kind = "ClientCredsFlow"]
    /\ \/ /\ phase' = "failed"
          /\ ctor' = [NoCtor EXCEPT !.name = "ClientCredsClient::authenticate",
                                    !.result = "Authentication"]
          /\ UNCHANGED <<auth_state, auto_refresh>>
       \/ \E resp \in ClientCredsResponses(net.token_calls + 1) :
            /\ phase' = "auth"
            /\ auto_refresh' = FALSE
            /\ auth_state' = set_timestamps(Deserialize(resp, now), now)
            /\ ctor' = [NoCtor EXCEPT !.name = "ClientCredsClient::authenticate",
                                      !.resp = <<resp>>, !.result = "Ok"]
    /\ UNCHANGED <<lock, now, task, unit>>

\* Client::from_refresh_token
FromRefreshToken(auto, refresh_token) ==
    /\ phase = "start"
    /\ net' = [net EXCEPT !.token_calls = @ + 1, !.refresh_calls = @ + 1]
    /\ auth_flow' = [NoFlow EXCEPT !.kind = "UnknownFlow"]
    /\ \/ /\ phase' = "failed"
          /\ ctor' = [NoCtor EXCEPT !.name = "Client::from_refresh_token",
                                    !.refresh_sent = refresh_token,
                                    !.result = "Authentication"]
          /\ UNCHANGED <<auth_state, auto_refresh>>
       \/ \E resp \in FirstResponses(net.token_calls + 1) :
            /\ phase' = "auth"
            /\ auto_refresh' = auto
            /\ auth_state' = KeepRefreshToken(set_timestamps(Deserialize(resp, now), now),
                                             refresh_token)
            /\ ctor' = [NoCtor EXCEPT !.name = "Client::from_refresh_token",
                                      !.refresh_sent = refresh_token,
                                      !.resp_refresh = resp.refresh_token,
                                      !.result = "Ok"]
    /\ UNCHANGED <<lock, now, task, unit>>

\* Tokens a caller can hand to from_access_token: built by Token::new.
CallerTokens ==
    {TokenNew(AccessSecret(0), r, c, FirstExpiresIn) : r \in CallerRefreshTokens,
                                                       c \in {Epoch, StartTime}}

\* What can come of the probe request: it cannot be sent, a 2xx answer, an
\* answer with another status whose body is the error envelope, one whose
\* body is not.
ProbeOutcomes == {"send failed", "2xx", "error envelope", "other body"}

\* Faulty variant: the status of the probe is not looked at.
ProbeResult_Ignored(probe) == IF probe = "send failed" THEN "Http" ELSE "Ok"

\* `.send().await?`, then `if !res.status().is_success()
\* { return Err(res.json::<SpotifyError>().await?.into()) }`.
ProbeResult(probe) ==
    CASE probe = "2xx"            -> "Ok"
      [] probe = "error envelope" -> "Spotify"
      [] OTHER                    -> "Http"

\* The probe request of from_access_token and its outcome; on a 2xx answer
\* the client of the given flow is returned around the supplied token.
FromAccessTokenCall(name, flow, auto, tok) ==
    /\ phase = "start"
    /\ net' = [net EXCEPT !.probe_calls = @ + 1]
    /\ auth_flow' = flow
    /\ \E probe \in ProbeOutcomes :
          /\ ctor' = [NoCtor EXCEPT !.name = name, !.probe_bearer = tok.access_token,
                                    !.probe = <<probe>>,
                                    !.result = ProbeResult(probe)]
          /\ IF ProbeResult(probe) = "Ok"
             THEN /\ phase' = "auth"
                  /\ auto_refresh' = auto
                  /\ auth_state' = tok
             ELSE /\ phase' = "failed"
                  /\ UNCHANGED <<auth_state, auto_refresh>>
    /\ UNCHANGED <<lock, now, task>>

FromAccessToken(name, flow, auto, tok) ==
    /\ FromAccessTokenCall(name, flow, auto, tok)
    /\ UNCHANGED unit

\* AuthCodeClient::from_access_token
AuthCodeFromAccessToken(auto, tok) ==
    FromAccessToken("AuthCodeClient::from_access_token",
                    [kind |-> "AuthCodeFlow", csrf_token |-> <<"not needed">>,
                     pkce_verifier |-> None],
                    auto /\ tok.refresh_token # None, tok)

\* AuthCodePkceClient::from_access_token
AuthCodePkceFromAccessToken(auto, tok) ==
    FromAccessToken("AuthCodePkceClient::from_access_token",
                    [kind |-> "AuthCodePkceFlow", csrf_token |-> <<"not needed">>,
                     pkce_verifier |-> None],
                    auto /\ tok.refresh_token # None, tok)

\* ClientCredsClient::from_access_token
ClientCredsFromAccessToken(tok) ==
    FromAccessToken("ClientCredsClient::from_access_token",
                    [NoFlow EXCEPT !.kind = "ClientCredsFlow"], FALSE, tok)

Construct ==
    \/ \E auto \in BOOLEAN, csrf \in CsrfSecrets : AuthCodeNew(auto, csrf)
    \/ \E auto \in BOOLEAN, csrf \in CsrfSecrets, v \in PkceVerifiers :
            AuthCodePkceNew(auto, csrf, v)
    \/ \E s \in SuppliedStates : AuthCodeAuthenticate(s)
    \/ \E s \in SuppliedStates : AuthCodePkceAuthenticate(s)
    \/ ExchangeCodeError
    \/ \E resp \in FirstResponses(net.token_calls) : ExchangeCodeOk(resp)
    \/ ClientCredsAuthenticate
    \/ \E auto \in BOOLEAN : FromRefreshToken(auto, "RT0")
    \/ \E auto \in BOOLEAN, tok \in CallerTokens : AuthCodeFromAccessToken(auto, tok)
    \/ \E auto \in BOOLEAN, tok \in CallerTokens : AuthCodePkceFromAccessToken(auto, tok)
    \/ \E tok \in CallerTokens : ClientCredsFromAccessToken(tok)

\* A token the caller persisted with its Serialize impl and read back with its
\* Deserialize impl: created_at is in the text, expires_at is skipped both
\* ways and comes back as DateTime::default().
Restore(tok) == [tok EXCEPT !.expires_at = Epoch]

RestoredTokens == {Restore(tok) : tok \in CallerTokens}

\* from_access_token with a token read back from storage.
ConstructRestored ==
    \/ \E auto \in BOOLEAN, tok \in RestoredTokens : AuthCodeFromAccessToken(auto, tok)
    \/ \E auto \in BOOLEAN, tok \in RestoredTokens : AuthCodePkceFromAccessToken(auto, tok)
    \/ \E tok \in RestoredTokens : ClientCredsFromAccessToken(tok)

\* ------------------------------------------------------------------------
\* The RwLock around the token
\* ------------------------------------------------------------------------

\* Faulty variant: a read guard is handed out while a writer holds the lock.
CanRead_Always == TRUE

\* RwLock::read returns once no writer holds the lock.
CanRead == lock.writer = {}

\* RwLock::write returns once nobody holds the lock.
CanWrite == lock.writer = {} /\ lock.readers = {}

\* A call ends by a panic of `.expect(..)` on a poisoned lock.
Panicked(tk) == [tk EXCEPT !.pc = "done", !.result = "panic", !.saw_poison = TRUE]

\* Code outside the library takes the write guard from Client::token and
\* panics while holding it: the guard is dropped and the lock is poisoned.
UserPanicsHoldingWriteGuard ==
    /\ phase = "auth"
    /\ CanWrite
    /\ ~lock.poisoned
    /\ lock' = [lock EXCEPT !.poisoned = TRUE]
    /\ UNCHANGED <<phase, auto_refresh, auth_state, auth_flow, now, net, ctor, task, unit>>

\* ------------------------------------------------------------------------
\* Calls on the authenticated client
\* ------------------------------------------------------------------------

Ops == {"request", "exchange_refresh_token", "access_token", "refresh_token"}

StartPc(op) ==
    CASE op = "request"                -> "req_start"
      [] op = "exchange_refresh_token" -> "ert_start"
      [] OTHER                         -> "get_start"

\* A task calls one of the methods of Client<Token, F>.
Call(t, op) ==
    /\ phase = "auth"
    /\ task[t].pc \in {"idle", "done"}
    /\ \A u \in Tasks : u < t => task[u].pc # "idle"
    /\ net.calls < MaxCalls
    /\ net' = [net EXCEPT !.calls = @ + 1]
    /\ task' = [task EXCEPT ![t] = [IdleTask EXCEPT !.pc = StartPc(op), !.op = op]]
    /\ UNCHANGED <<phase, auto_refresh, auth_state, auth_flow, lock, now, ctor, unit>>

\* --- access_token / refresh_token ---------------------------------------

\* access_token / refresh_token: read().expect(..), clone the secret, drop the
\* guard, return Ok.  Nothing is awaited, the guard lives within the step.
Get(t) ==
    /\ task[t].pc = "get_start"
    /\ CanRead
    /\ task' = [task EXCEPT ![t] =
                  IF lock.poisoned THEN Panicked(@)
                  ELSE IF @.op = "access_token"
                  THEN [@ EXCEPT !.pc = "done", !.result = "Ok",
                                 !.secret = auth_state.access_token]
                  ELSE [@ EXCEPT !.pc = "done", !.result = "Ok",
                                 !.refresh_token = auth_state.refresh_token]]
    /\ UNCHANGED <<phase, auto_refresh, auth_state, auth_flow, lock, now, net, ctor, unit>>

\* --- request: expiry check ----------------------------------------------

\* request: self.auth_state.read().expect(..)
ReqAcquire(t) ==
    /\ task[t].pc = "req_start"
    /\ CanRead
    /\ IF lock.poisoned
       THEN /\ task' = [task EXCEPT ![t] = Panicked(@)]
            /\ UNCHANGED lock
       ELSE /\ task' = [task EXCEPT ![t].pc = "req_read"]
            /\ lock' = [lock EXCEPT !.readers = @ \cup {t}]
    /\ UNCHANGED <<phase, auto_refresh, auth_state, auth_flow, now, net, ctor, unit>>

\* request: the credential given to bearer_auth: the local `secret`; tok is
\* the token the lock holds when the request is built.
Bearer(tk, tok) == tk.secret

\* request: build the request with bearer_auth(secret), execute it and suspend.
SendRequest(tk, tok) ==
    [tk EXCEPT !.pc = "req_await", !.bearer = Bearer(tk, tok), !.api_calls = @ + 1]

\* Faulty variant: an expired token is refreshed whatever auto_refresh says.
AfterExpiryCheck_AlwaysRefresh(tk, auto, tok) ==
    IF tk.token_expired THEN [tk EXCEPT !.pc = "ert_start"] ELSE SendRequest(tk, tok)

\* request: what follows the expiry check.
AfterExpiryCheck(tk, auto, tok) ==
    IF tk.token_expired
    THEN IF auto
         THEN [tk EXCEPT !.pc = "ert_start"]
         ELSE [tk EXCEPT !.pc = "done", !.result = "ExpiredToken"]
    ELSE SendRequest(tk, tok)

\* request: the first component of the pair read under the guard,
\* lock.is_expired().
ReqReadExpired(t) ==
    /\ task[t].pc = "req_read"
    /\ task' = [task EXCEPT ![t].pc = "req_read_secret",
                            ![t].token_expired = is_expired(auth_state, now)]
    /\ UNCHANGED <<phase, auto_refresh, auth_state, auth_flow, lock, now, net, ctor, unit>>

\* request: the second component, lock.access_token.secret().to_owned(); the
\* guard is dropped, then request branches on token_expired and auto_refresh.
ReqRead(t) ==
    /\ task[t].pc = "req_read_secret"
    /\ task' = [task EXCEPT ![t] =
                  AfterExpiryCheck([@ EXCEPT !.secret = auth_state.access_token],
                                   auto_refresh, auth_state)]
    /\ lock' = [lock EXCEPT !.readers = @ \ {t}]
    /\ UNCHANGED <<phase, auto_refresh, auth_state, auth_flow, now, net, ctor, unit>>

\* --- exchange_refresh_token ---------------------------------------------

\* Faulty variant: the error of the refresh is dropped (no `?`).
RequestAfterRefresh_IgnoresError(tk, res) == [tk EXCEPT !.pc = "req_log_start"]

\* request: `self.exchange_refresh_token().await?` and the code after it.
RequestAfterRefresh(tk, res) ==
    IF res # "Ok"
    THEN [tk EXCEPT !.pc = "done", !.result = res]
    ELSE [tk EXCEPT !.pc = "req_log_start"]

\* exchange_refresh_token returns res, to its caller or into request.
ErtReturn(tk, res) ==
    IF tk.op = "request"
    THEN RequestAfterRefresh([tk EXCEPT !.ert_result = res], res)
    ELSE [tk EXCEPT !.pc = "done", !.ert_result = res, !.result = res]

\* exchange_refresh_token: self.auth_state.read().unwrap_or_else(|e| e.into_inner())
ErtAcquire(t) ==
    /\ task[t].pc = "ert_start"
    /\ CanRead
    /\ task' = [task EXCEPT ![t].pc = "ert_read",
                            ![t].saw_poison = @ \/ lock.poisoned]
    /\ lock' = [lock EXCEPT !.readers = @ \cup {t}]
    /\ UNCHANGED <<phase, auto_refresh, auth_state, auth_flow, now, net, ctor, unit>>

\* Faulty variant: the absence of a refresh token is not checked.
RefreshUnavailable_Never(tok) == FALSE

\* exchange_refresh_token: `let Some(refresh_token) = &lock.refresh_token else`
RefreshUnavailable(tok) == tok.refresh_token = None

\* exchange_refresh_token: guards held once the block that reads the
\* refresh token is left.
GuardsAfterErtRead(readers, t) == readers \ {t}

\* exchange_refresh_token: clone the refresh token or return RefreshUnavailable,
\* drop the guard, send the refresh exchange and suspend on it.
ErtRead(t) ==
    /\ task[t].pc = "ert_read"
    /\ lock' = [lock EXCEPT !.readers = GuardsAfterErtRead(@, t)]
    /\ IF RefreshUnavailable(auth_state)
       THEN /\ task' = [task EXCEPT ![t] = ErtReturn(@, "RefreshUnavailable")]
            /\ UNCHANGED net
       ELSE /\ task' = [task EXCEPT ![t].pc = "ert_await",
                                    ![t].refresh_token = auth_state.refresh_token,
                                    ![t].refresh_calls = @ + 1,
                                    ![t].exchange_no = net.token_calls + 1]
            /\ net' = [net EXCEPT !.token_calls = @ + 1, !.refresh_calls = @ + 1]
    /\ UNCHANGED <<phase, auto_refresh, auth_state, auth_flow, now, ctor, unit>>

\* exchange_refresh_token: the exchange fails, `.await?` returns the error.
ErtError(t) ==
    /\ task[t].pc = "ert_await"
    /\ task' = [task EXCEPT ![t] = ErtReturn(@, "Authentication")]
    /\ UNCHANGED <<phase, auto_refresh, auth_state, auth_flow, lock, now, net, ctor, unit>>

\* exchange_refresh_token: the exchange succeeds: set_timestamps and keep the
\* refresh token that was sent when none came back.
ErtOk(t, resp) ==
    /\ task[t].pc = "ert_await"
    /\ task' = [task EXCEPT ![t].pc = "ert_write_start",
                            ![t].resp_refresh = resp.refresh_token,
                            ![t].token =
                                <<KeepRefreshToken(set_timestamps(Deserialize(resp, now), now),
                                                   task[t].refresh_token)>>]
    /\ UNCHANGED <<phase, auto_refresh, auth_state, auth_flow, lock, now, net, ctor, unit>>

\* exchange_refresh_token: self.auth_state.write().expect(..)
ErtAcquireWrite(t) ==
    /\ task[t].pc = "ert_write_start"
    /\ CanWrite
    /\ IF lock.poisoned
       THEN /\ task' = [task EXCEPT ![t] = Panicked(@)]
            /\ UNCHANGED lock
       ELSE /\ task' = [task EXCEPT ![t].pc = "ert_write"]
            /\ lock' = [lock EXCEPT !.writer = {t}]
    /\ UNCHANGED <<phase, auto_refresh, auth_state, auth_flow, now, net, ctor, unit>>

\* The assignment `*lock = token` moves a struct of several words: the memory
\* of the token when the secrets are written and the timestamps are not yet.
HalfWritten(cur, tok) ==
    [cur EXCEPT !.access_token = tok.access_token, !.refresh_token = tok.refresh_token]

\* Faulty variant: the assignment is lost, the lock keeps the token it had.
Written_Lost(cur, tok) == cur

\* The token the lock holds once `*lock = token` is complete.
Written(cur, tok) == tok

\* exchange_refresh_token: *lock = token, the first words.
ErtWriteBegin(t) ==
    /\ task[t].pc = "ert_write"
    /\ auth_state' = HalfWritten(auth_state, task[t].token[1])
    /\ task' = [task EXCEPT ![t].pc = "ert_write_end", ![t].replaced = <<auth_state>>]
    /\ UNCHANGED <<phase, auto_refresh, auth_flow, lock, now, net, ctor, unit>>

\* exchange_refresh_token: *lock = token, the remaining words; Ok(()) and the
\* guard is dropped.
ErtWrite(t) ==
    /\ task[t].pc = "ert_write_end"
    /\ auth_state' = Written(task[t].replaced[1], task[t].token[1])
    /\ lock' = [lock EXCEPT !.writer = {}]
    /\ task' = [task EXCEPT ![t] =
                  ErtReturn([@ EXCEPT !.stored = task[t].token, !.token = NoToken,
                                      !.replaced = NoToken], "Ok")]
    /\ UNCHANGED <<phase, auto_refresh, auth_flow, now, net, ctor, unit>>

\* --- request: after the refresh -----------------------------------------

\* request: self.auth_state.read().expect(..) for the log line
ReqLogAcquire(t) ==
    /\ task[t].pc = "req_log_start"
    /\ CanRead
    /\ IF lock.poisoned
       THEN /\ task' = [task EXCEPT ![t] = Panicked(@)]
            /\ UNCHANGED lock
       ELSE /\ task' = [task EXCEPT ![t].pc = "req_log"]
            /\ lock' = [lock EXCEPT !.readers = @ \cup {t}]
    /\ UNCHANGED <<phase, auto_refresh, auth_state, auth_flow, now, net, ctor, unit>>

\* Faulty variant: the guard taken for the log line lives to the end of request.
GuardsAfterLog_Held(readers, t) == readers

\* request: guards held once the `if self.auto_refresh { .. }` block is left.
GuardsAfterLog(readers, t) == readers \ {t}

\* Faulty variant: the expiry of the new token is checked and an expired one
\* refreshed again.
AfterRefresh_Rechecked(tk, tok) ==
    IF is_expired(tok, now) THEN [tk EXCEPT !.pc = "ert_start"] ELSE SendRequest(tk, tok)

\* request: what follows the `if token_expired { .. }` block after a refresh:
\* the request is built, with no second look at the token.
AfterRefresh(tk, tok) == SendRequest(tk, tok)

\* request: info!(.. lock.expires_in), end of the block; then the request is
\* built and sent.
ReqLog(t) ==
    /\ task[t].pc = "req_log"
    /\ task' = [task EXCEPT ![t] = AfterRefresh(@, auth_state)]
    /\ lock' = [lock EXCEPT !.readers = GuardsAfterLog(@, t)]
    /\ UNCHANGED <<phase, auto_refresh, auth_state, auth_flow, now, net, ctor, unit>>

\* Outcomes of request once the request has been sent.
ResponseResults == {"Ok", "Spotify"}

\* request: the response arrives and is decoded; every guard of the call is gone
\* when the function returns.
ReqResponse(t, res) ==
    /\ task[t].pc = "req_await"
    /\ task' = [task EXCEPT ![t].pc = "done", ![t].result = res]
    /\ lock' = [lock EXCEPT !.readers = @ \ {t}]
    /\ UNCHANGED <<phase, auto_refresh, auth_state, auth_flow, now, net, ctor, unit>>

\* Steps a task takes without waiting for the network.
LocalStep(t) ==
    \/ Get(t)
    \/ ReqAcquire(t)
    \/ ReqReadExpired(t)
    \/ ReqRead(t)
    \/ ErtAcquire(t)
    \/ ErtRead(t)
    \/ ErtAcquireWrite(t)
    \/ ErtWriteBegin(t)
    \/ ErtWrite(t)
    \/ ReqLogAcquire(t)
    \/ ReqLog(t)

\* Steps that complete a suspension on the network.
NetworkStep(t) ==
    \/ ErtError(t)
    \/ \E resp \in RefreshResponses(task[t].exchange_no) : ErtOk(t, resp)
    \/ \E res \in ResponseResults : ReqResponse(t, res)

Use ==
    \/ \E t \in Tasks, op \in Ops : Call(t, op)
    \/ \E t \in Tasks : LocalStep(t)
    \/ \E t \in Tasks : NetworkStep(t)

Next == Tick \/ Construct \/ Use

Spec == Init /\ [][Next]_vars

\* ------------------------------------------------------------------------
\* auth.rs: the expiry arithmetic on its own
\* ------------------------------------------------------------------------

\* Token::new(.., created_at, expires_in, ..) and set_timestamps of a token
\* with expires_in at instant created_at, over every u64 and every instant.
TokenInit ==
    /\ NoClient
    /\ unit \in [fn  : {"Token::new", "Token::set_timestamps"},
                 arg : (0 .. MaxDateTime) \X (0 .. U64Max),
                 out : {<<>>}]

\* Token::new computes expires_at.
ApplyTokenNew ==
    /\ unit.fn = "Token::new"
    /\ unit.out = <<>>
    /\ unit' = [unit EXCEPT !.out = <<CheckedExpiresAt(unit.arg[1], unit.arg[2])>>]
    /\ UNCHANGED <<phase, auto_refresh, auth_state, auth_flow, lock, now, net, ctor, task>>

\* set_timestamps computes expires_at from Utc::now() and self.expires_in.
ApplySetTimestamps ==
    /\ unit.fn = "Token::set_timestamps"
    /\ unit.out = <<>>
    /\ unit' = [unit EXCEPT !.out = <<CheckedExpiresAt(unit.arg[1], unit.arg[2])>>]
    /\ UNCHANGED <<phase, auto_refresh, auth_state, auth_flow, lock, now, net, ctor, task>>

TokenNext == ApplyTokenNew \/ ApplySetTimestamps

TokenSpec == TokenInit /\ [][TokenNext]_vars

\* ------------------------------------------------------------------------
\* client.rs: from_access_token, with the call and its argument kept in unit
\* ------------------------------------------------------------------------

FromAccessTokenNames ==
    {"AuthCodeClient::from_access_token", "AuthCodePkceClient::from_access_token",
     "ClientCredsClient::from_access_token"}

\* The flow value each from_access_token builds.
FlowOf(name) ==
    CASE name = "AuthCodeClient::from_access_token" ->
            [kind |-> "AuthCodeFlow", csrf_token |-> <<"not needed">>, pkce_verifier |-> None]
      [] name = "AuthCodePkceClient::from_access_token" ->
            [kind |-> "AuthCodePkceFlow", csrf_token |-> <<"not needed">>,
             pkce_verifier |-> None]
      [] OTHER -> [NoFlow EXCEPT !.kind = "ClientCredsFlow"]

\* Faulty variant: the flag is stored as requested.
AutoRefreshOf_AsRequested(name, auto, tok) == auto

\* `auto_refresh && token.refresh_token.is_some()`, or false for client
\* credentials.
AutoRefreshOf(name, auto, tok) ==
    IF name = "ClientCredsClient::from_access_token" THEN FALSE
    ELSE auto /\ tok.refresh_token # None

\* from_access_token(.., auto_refresh, token), remembered with its arguments.
FromAccessTokenObserved(name, auto, tok) ==
    /\ FromAccessTokenCall(name, FlowOf(name), AutoRefreshOf(name, auto, tok), tok)
    /\ unit' = [fn |-> name, arg |-> <<auto, tok>>, out |-> <<>>]

ProbeNext ==
    \/ \E name \in FromAccessTokenNames, auto \in BOOLEAN, tok \in CallerTokens :
            FromAccessTokenObserved(name, auto, tok)
    \/ Use
    \/ Tick

ProbeSpec == Init /\ [][ProbeNext]_vars

\* The constructors that decide auto_refresh themselves: the three
\* from_access_token and ClientCredsClient::authenticate.
GatedNext == ProbeNext \/ ClientCredsAuthenticate

GatedSpec == Init /\ [][GatedNext]_vars

\* ------------------------------------------------------------------------
\* endpoint/track.rs: RecommendationsEndpoint
\* ------------------------------------------------------------------------

\* Lists of ids a caller passes as seeds.
SeedLists ==
    [artists |-> {<<"a1">>, <<"a2">>, <<"a1", "a2">>},
     genres  |-> {<<"g1">>, <<"g2">>, <<"g1", "g2">>},
     tracks  |-> {<<"t1">>, <<"t2">>, <<"t1", "t2">>}]

\* query_list: the ids joined with ",".
RECURSIVE query_list(_)
query_list(list) ==
    IF Len(list) <= 1 THEN list ELSE <<Head(list), ",">> \o query_list(Tail(list))

\* recommendations(seed): the builder of the seed's type, the seed in its own
\* field. The optional fields are <<>> or <<value>>.
recommendations(kind, ids) ==
    [seed_artists |-> IF kind = "artists" THEN <<query_list(ids)>> ELSE <<>>,
     seed_genres  |-> IF kind = "genres" THEN <<query_list(ids)>> ELSE <<>>,
     seed_tracks  |-> IF kind = "tracks" THEN <<query_list(ids)>> ELSE <<>>,
     marker       |-> kind]

\* RecommendationsEndpoint<SeedGenres>::seed_artists and
\* RecommendationsEndpoint<SeedTracks>::seed_artists
seed_artists(self, artist_ids) ==
    [self EXCEPT !.seed_genres = <<query_list(artist_ids)>>]

\* RecommendationsEndpoint<SeedArtists>::seed_genres and
\* RecommendationsEndpoint<SeedTracks>::seed_genres
seed_genres(self, genres) ==
    [self EXCEPT !.seed_genres = <<query_list(genres)>>]

\* RecommendationsEndpoint<SeedArtists>::seed_tracks and
\* RecommendationsEndpoint<SeedGenres>::seed_tracks
seed_tracks(self, track_ids) ==
    [self EXCEPT !.seed_tracks = <<query_list(track_ids)>>]

\* A builder has been made from one seed.
SeedInit ==
    /\ NoClient
    /\ \E kind \in DOMAIN SeedLists :
         \E ids \in SeedLists[kind] :
            unit = [fn |-> "recommendations", arg |-> <<ids>>,
                    out |-> <<recommendations(kind, ids)>>]

SeedFrame == UNCHANGED <<phase, auto_refresh, auth_state, auth_flow, lock, now, net, ctor, task>>

\* .seed_artists(ids): there is no such method on the artists-seeded builder.
SetSeedArtists ==
    /\ unit.out[1].marker \in {"genres", "tracks"}
    /\ \E ids \in SeedLists.artists :
         unit' = [fn |-> "seed_artists", arg |-> <<ids>>,
                  out |-> <<seed_artists(unit.out[1], ids)>>]
    /\ SeedFrame

\* .seed_genres(genres)
SetSeedGenres ==
    /\ unit.out[1].marker \in {"artists", "tracks"}
    /\ \E ids \in SeedLists.genres :
         unit' = [fn |-> "seed_genres", arg |-> <<ids>>,
                  out |-> <<seed_genres(unit.out[1], ids)>>]
    /\ SeedFrame

\* .seed_tracks(track_ids)
SetSeedTracks ==
    /\ unit.out[1].marker \in {"artists", "genres"}
    /\ \E ids \in SeedLists.tracks :
         unit' = [fn |-> "seed_tracks", arg |-> <<ids>>,
                  out |-> <<seed_tracks(unit.out[1], ids)>>]
    /\ SeedFrame

SeedNext == SetSeedArtists \/ SetSeedGenres \/ SetSeedTracks

SeedSpec == SeedInit /\ [][SeedNext]_vars

\* ------------------------------------------------------------------------
\* model.rs: Page
\* ------------------------------------------------------------------------

API_URL == "https://api.spotify.com/v1"

\* The link to page i of a collection, as the API writes it into `next` and
\* `previous`: the text of the URL in parts, and the page it names.
LinkTo(i) == [parts |-> <<API_URL, "/items">>, page |-> i]

\* Page::items of page i: two items, told apart from those of any other page.
ItemsOf(i) == <<2 * i - 1, 2 * i>>

\* Page::next and Page::previous of page i in a collection of n pages.
LinkOf(n, i, dir) ==
    IF dir = "next"
    THEN IF i < n THEN <<LinkTo(i + 1)>> ELSE <<>>
    ELSE IF i > 1 THEN <<LinkTo(i - 1)>> ELSE <<>>

\* Faulty variant: the link goes to request as it is.
StripApiUrl_Kept(link) == link

\* next.replace(client::API_URL, "")
StripApiUrl(link) == [link EXCEPT !.parts = SelectSeq(@, LAMBDA p : p # API_URL)]

\* format!("{API_URL}{endpoint}") of request
RequestUrl(endpoint) == [endpoint EXCEPT !.parts = <<API_URL>> \o @]

\* The page the API serves at a URL.
PageAt(url) == url.page

\* How a call of Client::request for a page can end: the result, whether the
\* token was refreshed on the way and whether the GET was sent.
RequestOutcomes ==
    {[result |-> "Ok", refreshed |-> FALSE, sent |-> TRUE],
     [result |-> "Ok", refreshed |-> TRUE, sent |-> TRUE],
     [result |-> "Spotify", refreshed |-> FALSE, sent |-> TRUE],
     [result |-> "Http", refreshed |-> TRUE, sent |-> TRUE],
     [result |-> "ExpiredToken", refreshed |-> FALSE, sent |-> FALSE],
     [result |-> "Authentication", refreshed |-> TRUE, sent |-> FALSE]}

\* Page::get_next / Page::get_previous on page i: without a link
\* NoRemainingPages and nothing else; with one, spotify.get for it, ending as o.
GetPage(n, i, dir, o) ==
    LET link == LinkOf(n, i, dir) IN
    IF link = <<>>
    THEN [kind |-> "NoRemainingPages", page |-> 0, gets |-> <<>>,
          requests |-> 0, refreshes |-> 0]
    ELSE LET url == RequestUrl(StripApiUrl(link[1])) IN
         [kind |-> o.result,
          page |-> IF o.result = "Ok" THEN PageAt(url) ELSE 0,
          gets |-> IF o.sent THEN <<url>> ELSE <<>>,
          requests |-> 1,
          refreshes |-> IF o.refreshed THEN 1 ELSE 0]

\* The traffic of a page fetch added to that of the call so far.
Counted(u, r) ==
    [u EXCEPT !.gets = @ \o r.gets, !.requests = @ + r.requests,
              !.refreshes = @ + r.refreshes]

PageFns == {"Page::get_next", "Page::get_previous", "Page::get_remaining", "Page::get_all"}

\* A method of Page is called on page cur of a collection of n pages.
PageInit ==
    /\ NoClient
    /\ \E f \in PageFns, n \in 1 .. MaxPages :
         \E cur \in 1 .. n :
            unit = [fn |-> f, arg |-> <<n, cur>>, out |-> <<>>, pc |-> "start",
                    page |-> cur, items |-> <<>>, gets |-> <<>>, requests |-> 0,
                    refreshes |-> 0]

PageFrame == UNCHANGED <<phase, auto_refresh, auth_state, auth_flow, lock, now, net, ctor, task>>

\* Page::get_next and Page::get_previous
GetNextOrPrevious ==
    /\ unit.fn \in {"Page::get_next", "Page::get_previous"}
    /\ unit.pc = "start"
    /\ \E o \in RequestOutcomes :
         LET r == GetPage(unit.arg[1], unit.page,
                          IF unit.fn = "Page::get_next" THEN "next" ELSE "previous", o) IN
         unit' = [Counted(unit, r) EXCEPT !.pc = "done",
                                          !.out = <<[kind |-> r.kind, page |-> r.page]>>]
    /\ PageFrame

\* `let mut items = std::mem::take(&mut self.items);`
TakeItems(i) == ItemsOf(i)

\* get_remaining up to its loop.
GetRemainingStart ==
    /\ unit.fn = "Page::get_remaining"
    /\ unit.pc = "start"
    /\ unit' = [unit EXCEPT !.items = TakeItems(unit.arg[2]),
                            !.pc = IF LinkOf(unit.arg[1], unit.page, "next") # <<>>
                                   THEN "loop_next" ELSE "return"]
    /\ PageFrame

\* get_all up to its first loop.
GetAllStart ==
    /\ unit.fn = "Page::get_all"
    /\ unit.pc = "start"
    /\ unit' = [unit EXCEPT !.items = TakeItems(unit.arg[2]),
                            !.pc = IF LinkOf(unit.arg[1], unit.arg[2], "previous") # <<>>
                                   THEN "loop_previous"
                                   ELSE IF LinkOf(unit.arg[1], unit.arg[2], "next") # <<>>
                                   THEN "loop_next" ELSE "return"]
    /\ PageFrame

\* One turn of a loop: Ok appends the items of the page and goes on from it,
\* NoRemainingPages breaks, any other error returns.
LoopTurn(dir, after) ==
    \E o \in RequestOutcomes :
        LET r == GetPage(unit.arg[1], unit.page, dir, o)
            u == Counted(unit, r) IN
        unit' = CASE r.kind = "Ok" ->
                        [u EXCEPT !.items = @ \o ItemsOf(r.page), !.page = r.page]
                  [] r.kind = "NoRemainingPages" ->
                        [u EXCEPT !.pc = after, !.page = unit.arg[2]]
                  [] OTHER ->
                        [u EXCEPT !.pc = "done", !.out = <<[kind |-> r.kind, items |-> <<>>]>>]

\* The loop over the previous pages of get_all.
LoopPrevious ==
    /\ unit.pc = "loop_previous"
    /\ LoopTurn("previous", IF LinkOf(unit.arg[1], unit.arg[2], "next") # <<>>
                            THEN "loop_next" ELSE "return")
    /\ PageFrame

\* The loop over the next pages of get_remaining and get_all.
LoopNext ==
    /\ unit.pc = "loop_next"
    /\ LoopTurn("next", "return")
    /\ PageFrame

\* Ok(items)
PageReturn ==
    /\ unit.pc = "return"
    /\ unit' = [unit EXCEPT !.pc = "done", !.out = <<[kind |-> "Ok", items |-> unit.items]>>]
    /\ PageFrame

PageNext ==
    \/ GetNextOrPrevious
    \/ GetRemainingStart
    \/ GetAllStart
    \/ LoopPrevious
    \/ LoopNext
    \/ PageReturn

PageSpec == PageInit /\ [][PageNext]_vars

\* ------------------------------------------------------------------------
\* client.rs: new and authenticate of the authorisation code flows
\* ------------------------------------------------------------------------

\* More of the values CsrfToken::new_random can return.
RandomSecrets == CsrfSecrets \cup {<<"b", "a">>, <<"-", "_">>}

\* State parameters a redirect may carry back.
RedirectStates == SuppliedStates \cup RandomSecrets

HandshakeNext ==
    \/ \E auto \in BOOLEAN, csrf \in RandomSecrets : AuthCodeNew(auto, csrf)
    \/ \E auto \in BOOLEAN, csrf \in RandomSecrets, v \in PkceVerifiers :
            AuthCodePkceNew(auto, csrf, v)
    \/ \E s \in RedirectStates : AuthCodeAuthenticate(s)
    \/ \E s \in RedirectStates : AuthCodePkceAuthenticate(s)
    \/ ExchangeCodeError
    \/ \E resp \in FirstResponses(net.token_calls) : ExchangeCodeOk(resp)

HandshakeSpec == Init /\ [][HandshakeNext]_vars

\* ------------------------------------------------------------------------
\* client.rs: request, the handling of the response, on its own
\* ------------------------------------------------------------------------

\* The error envelopes of the API: {"error":{"status":..,"message":..}}.
Envelopes ==
    [env429  |-> [status |-> 429, message |-> "rate limited"],
     env404  |-> [status |-> 404, message |-> "not found"],
     envWide |-> [status |-> 65536, message |-> "status beyond u16"]]

\* What a body is made of: JSON whitespace, the text of a JSON object with the
\* fields of the target struct, a JSON string literal, an error envelope, text
\* that is not JSON, bytes that are not UTF-8.
Chunks == {WS, "obj", "str", "txt", "bad"} \cup DOMAIN Envelopes

RECURSIVE BodiesUpTo(_)
BodiesUpTo(n) ==
    IF n = 0 THEN {<<>>}
    ELSE BodiesUpTo(n - 1) \cup
         {Append(b, c) : b \in {x \in BodiesUpTo(n - 1) : Len(x) = n - 1}, c \in Chunks}

Bodies == BodiesUpTo(MaxBody)

\* Target types of request: Nil, a struct of the model, String, and the
\* SpotifyError request itself decodes.
Targets == {"Nil", "Struct", "String"}

\* A response: its status class, whether its body could be read, its body.
Responses == [success : BOOLEAN, read : BOOLEAN, body : Bodies]

DecodeOk(v) == [ok |-> TRUE, value |-> v, err |-> None]

DecodeErr(e) == [ok |-> FALSE, value |-> None, err |-> e]

\* std::str::from_utf8(&bytes)
IsUtf8(body) == \A i \in 1 .. Len(body) : body[i] # "bad"

\* Faulty variant: Nil deserializes like a derived struct, which no
\* deserializer of request satisfies without the matching input.
NilDeserialize_Fails(input) == DecodeErr("invalid type")

\* impl Deserialize for Nil: Ok(Nil), the deserializer is not looked at.
NilDeserialize(input) == DecodeOk("Nil")

\* Whether the JSON value of chunk c has the shape of target T.
Fits(T, c) ==
    CASE T = "Struct"       -> c = "obj"
      [] T = "String"       -> c = "str"
      [] T = "SpotifyError" -> c \in DOMAIN Envelopes /\ Envelopes[c].status < 65536
      [] OTHER              -> FALSE

\* The value T takes from the JSON value of chunk c.
ValueOf(T, c) ==
    CASE T = "SpotifyError" -> Envelopes[c]
      [] T = "String"       -> <<"content of", c>>
      [] OTHER              -> T

\* The error of serde_json for a JSON value of another shape.
Mismatch(T, c) ==
    IF c = "str" \/ T = "String" THEN "invalid type"
    ELSE IF c \in DOMAIN Envelopes /\ T = "SpotifyError" THEN "invalid value"
    ELSE "missing field"

\* serde_json::from_slice::<T>(&bytes): T::deserialize on the text, then
\* Deserializer::end, which accepts nothing but whitespace.
FromSlice(T, body) ==
    IF T = "Nil"
    THEN LET r == NilDeserialize(body) IN
         IF r.ok /\ TrimStart(body) # <<>> THEN DecodeErr("trailing characters") ELSE r
    ELSE LET b == TrimStart(body) IN
         IF b = <<>> THEN DecodeErr("EOF while parsing a value")
         ELSE IF Head(b) \in {"txt", "bad"} THEN DecodeErr("expected value")
         ELSE IF ~Fits(T, Head(b)) THEN DecodeErr(Mismatch(T, Head(b)))
         ELSE IF TrimStart(Tail(b)) # <<>> THEN DecodeErr("trailing characters")
         ELSE DecodeOk(ValueOf(T, Head(b)))

\* T::deserialize(BytesDeserializer): the visitor of T is handed the bytes.
FromBytes(T, body) ==
    CASE T = "Nil"    -> NilDeserialize(body)
      [] T = "String" -> IF IsUtf8(body) THEN DecodeOk(<<"text of", body>>)
                         ELSE DecodeErr("invalid value")
      [] OTHER        -> DecodeErr("invalid type")

\* Faulty variant: the error of the second attempt is the one reported.
FallbackError_Second(first, second) == second

\* `T::deserialize(de).map_err(|_| e)`: the error kept when both attempts fail.
FallbackError(first, second) == first

\* Faulty variant: status and description are not taken from the envelope.
FromSpotifyError_Blank(e) == [kind |-> "Spotify", status |-> 0, description |-> ""]

\* impl From<SpotifyError> for Error
FromSpotifyError(e) ==
    [kind |-> "Spotify", status |-> e.status, description |-> e.message]

\* request on a 2xx response: bytes().await?, the JSON attempt, or_else the
\* attempt on the raw bytes, and the error when both fail.
OnSuccess(T, res) ==
    IF ~res.read THEN [kind |-> "Http"]
    ELSE LET first == FromSlice(T, res.body)
             second == FromBytes(T, res.body) IN
         IF first.ok THEN [kind |-> "Ok", value |-> first.value, attempts |-> 1]
         ELSE IF second.ok THEN [kind |-> "Ok", value |-> second.value, attempts |-> 2]
         ELSE IF ~IsUtf8(res.body) THEN [kind |-> "InvalidResponse"]
         ELSE [kind |-> "Deserialization",
               source |-> FallbackError(first.err, second.err),
               body |-> res.body]

\* request on any other response: res.json::<SpotifyError>().await?.into();
\* reqwest wraps a body it cannot read or parse in its own error, which `?`
\* turns into Error::Http.
OnFailure(res) ==
    IF ~res.read THEN [kind |-> "Http"]
    ELSE LET e == FromSlice("SpotifyError", res.body) IN
         IF e.ok THEN FromSpotifyError(e.value) ELSE [kind |-> "Http"]

\* A response to a request with target type T has arrived.
DecodeInit ==
    /\ NoClient
    /\ unit \in [fn  : {"Client::request"},
                 arg : Targets \X Responses,
                 out : {<<>>}]

\* if res.status().is_success() { .. }
HandleSuccess ==
    /\ unit.fn = "Client::request"
    /\ unit.out = <<>>
    /\ unit.arg[2].success
    /\ unit' = [unit EXCEPT !.out = <<OnSuccess(unit.arg[1], unit.arg[2])>>]
    /\ UNCHANGED <<phase, auto_refresh, auth_state, auth_flow, lock, now, net, ctor, task>>

\* else { Err(..) }
HandleFailure ==
    /\ unit.fn = "Client::request"
    /\ unit.out = <<>>
    /\ ~unit.arg[2].success
    /\ unit' = [unit EXCEPT !.out = <<OnFailure(unit.arg[2])>>]
    /\ UNCHANGED <<phase, auto_refresh, auth_state, auth_flow, lock, now, net, ctor, task>>

DecodeNext == HandleSuccess \/ HandleFailure

DecodeSpec == DecodeInit /\ [][DecodeNext]_vars

\* The program with callers that keep their token in storage between runs.
RestoreNext == Next \/ ConstructRestored

RestoreSpec == Init /\ [][RestoreNext]_vars

\* The program together with code of the caller that panics while it holds the
\* write guard Client::token hands out.
PoisonNext == Next \/ UserPanicsHoldingWriteGuard

PoisonSpec == Init /\ [][PoisonNext]_vars

\* Interleavings of the calls on one client, the clock standing still: the
\* tokens the constructors accept and the token endpoint returns are expired
\* or not at that instant.
StillNext == Construct \/ Use

\* The executor runs every task that can take a step; answers of the network
\* are not assumed to arrive.
FairSpec == Init /\ [][StillNext]_vars /\ \A t \in Tasks : WF_vars(LocalStep(t))

\* The same with every exchange and every request answered in the end.
AnsweredSpec ==
    /\ Init
    /\ [][StillNext]_vars
    /\ \A t \in Tasks : WF_vars(LocalStep(t)) /\ WF_vars(NetworkStep(t))

\* ------------------------------------------------------------------------
\* Properties
\* ------------------------------------------------------------------------

\* C1: when request refreshed the token (auto_refresh, expired token, exchange
\* succeeded), the resource request it then sends carries the access-token
\* secret of the token that refresh stored.
C1_BearerIsRefreshedSecret ==
    \A t \in Tasks :
        (task[t].op = "request" /\ task[t].stored # NoToken /\ task[t].api_calls > 0)
            => task[t].bearer = task[t].stored[1].access_token

\* C2: when the refresh started by request fails (RefreshUnavailable or an
\* Authentication error), request has returned that error, has sent no resource
\* request and has not written the token.
C2_RefreshErrorStopsRequest ==
    \A t \in Tasks :
        (task[t].op = "request" /\ task[t].ert_result \in {"RefreshUnavailable", "Authentication"})
            => /\ task[t].pc = "done"
               /\ task[t].result = task[t].ert_result
               /\ task[t].api_calls = 0
               /\ task[t].bearer = NoSecret
               /\ task[t].stored = NoToken

C2_Witness ==
    \E t \in Tasks :
        /\ task[t].op = "request"
        /\ task[t].token_expired
        /\ task[t].ert_result = "Authentication"
        /\ task[t].result = "Authentication"

\* C3: when request finds the token expired and auto_refresh is false, it has
\* returned ExpiredToken, sent neither a resource request nor a refresh exchange,
\* and has not written the token.
C3_ExpiredWithoutAutoRefresh ==
    \A t \in Tasks :
        (task[t].op = "request" /\ task[t].token_expired /\ ~auto_refresh
                /\ task[t].pc # "req_read_secret")
            => /\ task[t].pc = "done"
               /\ task[t].result = "ExpiredToken"
               /\ task[t].api_calls = 0
               /\ task[t].refresh_calls = 0
               /\ task[t].stored = NoToken

C3_Witness ==
    \E t \in Tasks :
        /\ task[t].op = "request"
        /\ task[t].token_expired
        /\ ~auto_refresh
        /\ task[t].result = "ExpiredToken"

\* C4: a step of exchange_refresh_token that reads a token without refresh
\* secret returns RefreshUnavailable and calls the token endpoint zero times,
\* whatever the flow and whether it was called directly or from request.
C4_RefreshGate ==
    [][\A t \in Tasks :
          (task[t].pc = "ert_read" /\ task'[t].pc # "ert_read"
                /\ auth_state.refresh_token = None)
            => /\ task'[t].ert_result = "RefreshUnavailable"
               /\ task'[t].pc = "done"
               /\ task'[t].result = "RefreshUnavailable"
               /\ task'[t].refresh_calls = 0
               /\ net' = net]_vars

C4_Witness ==
    \E t \in Tasks :
        /\ task[t].op = "request"
        /\ task[t].result = "RefreshUnavailable"
        /\ task[t].refresh_calls = 0
        /\ auth_state.refresh_token = None

\* C5: the token a successful refresh stores, and the token from_refresh_token
\* builds, carries the refresh token of the response when there is one and the
\* refresh secret that was sent otherwise; it always carries one.
C5_RefreshSecretKept ==
    /\ \A t \in Tasks :
          task[t].stored # NoToken
            => /\ task[t].stored[1].refresh_token # None
               /\ task[t].stored[1].refresh_token =
                     IF task[t].resp_refresh = None THEN task[t].refresh_token
                                                    ELSE task[t].resp_refresh
    /\ (ctor.name = "Client::from_refresh_token" /\ ctor.result = "Ok" /\ net.calls = 0)
            => /\ auth_state.refresh_token # None
               /\ auth_state.refresh_token =
                     IF ctor.resp_refresh = None THEN ctor.refresh_sent
                                                 ELSE ctor.resp_refresh

C5_Witness ==
    \E t \in Tasks :
        /\ ctor.name = "Client::from_refresh_token"
        /\ ctor.resp_refresh = None
        /\ task[t].stored # NoToken
        /\ task[t].resp_refresh = None
        /\ task[t].refresh_token = "RT0"
        /\ auth_state = task[t].stored[1]

\* C6: authenticate of the AuthCode and PKCE clients compares the trimmed state
\* with the trimmed CSRF secret: when they differ it returns
\* InvalidStateParameter without any token-endpoint call, and a code exchange is
\* only sent when they are equal.
C6_CsrfCheck ==
    (ctor.name = "authenticate" /\ ctor.csrf_state # NoState)
        => /\ Trim(ctor.csrf_state) # Trim(auth_flow.csrf_token)
                => /\ phase = "failed"
                   /\ ctor.result = "InvalidStateParameter"
                   /\ net.token_calls = 0
                   /\ ctor.code_exchanges = 0
           /\ ctor.code_exchanges > 0
                => Trim(ctor.csrf_state) = Trim(auth_flow.csrf_token)

C6_Witness ==
    /\ ctor.name = "authenticate"
    /\ auth_flow.kind = "AuthCodePkceFlow"
    /\ ctor.csrf_state = <<"a", WS, "b">>
    /\ ctor.result = "InvalidStateParameter"
    /\ net.token_calls = 0

\* C7: the PKCE verifier goes into at most one code exchange: authenticate has
\* taken it out of the flow when the exchange is sent, no code exchange of a
\* PKCE client goes without a verifier, and InvalidClientState is returned
\* without a token-endpoint call.
C7_PkceVerifierSingleUse ==
    auth_flow.kind = "AuthCodePkceFlow"
        => /\ ctor.code_exchanges <= 1
           /\ ctor.code_exchanges > 0
                => (ctor.verifier_sent # None /\ auth_flow.pkce_verifier = None)
           /\ phase \in {"exchanging", "auth"} => auth_flow.pkce_verifier = None
           /\ ctor.result = "InvalidClientState"
                => (phase = "failed" /\ net.token_calls = 0)

C7_Witness ==
    /\ auth_flow.kind = "AuthCodePkceFlow"
    /\ phase = "exchanging"
    /\ ctor.code_exchanges = 1
    /\ ctor.verifier_sent \in PkceVerifiers
    /\ auth_flow.pkce_verifier = None

\* C8: on an authenticated ClientCreds client exchange_refresh_token returns
\* RefreshUnavailable; no refresh exchange reaches the token endpoint.
C8_ClientCredsNeverRefreshes ==
    (phase = "auth" /\ auth_flow.kind = "ClientCredsFlow")
        => /\ net.refresh_calls = 0
           /\ \A t \in Tasks :
                 /\ task[t].refresh_calls = 0
                 /\ task[t].ert_result \in {None, "RefreshUnavailable"}

\* C9: a call that finds the token lock poisoned returns PoisonedLock; it does
\* not panic.
C9_PoisonedLockIsAnError ==
    \A t \in Tasks :
        (task[t].saw_poison /\ task[t].pc = "done") => task[t].result = "PoisonedLock"

\* Positions at which a call waits for the token lock.
LockPcs == {"get_start", "req_start", "ert_start", "ert_write_start", "req_log_start"}

\* C10: a task suspended on a refresh exchange or on a resource request holds
\* no guard of the token lock, and a task waiting for the lock does not wait
\* forever.
C10_NoGuardAcrossAwait ==
    /\ [](\A t \in Tasks :
            task[t].pc \in NetworkPcs => (t \notin lock.readers /\ t \notin lock.writer))
    /\ \A t \in Tasks : (task[t].pc \in LockPcs) ~> (task[t].pc \notin LockPcs)

C10_Witness ==
    \E t, u \in Tasks :
        /\ task[t].op = "request"
        /\ task[t].pc = "req_await"
        /\ task[t].stored # NoToken
        /\ task[u].pc = "ert_write"
        /\ lock.writer = {u}

\* C11: refreshes are not coalesced.  A step of exchange_refresh_token that
\* reads a token with a refresh secret sends its own refresh exchange, whatever
\* the other tasks have in flight, and the step that completes `*lock = token`
\* leaves the token of that very refresh in the lock: the refresh that takes
\* the write lock last determines the stored token.
C11_RefreshesNotCoalesced ==
    [][\A t \in Tasks :
          /\ (task[t].pc = "ert_read" /\ task'[t].pc # "ert_read"
                    /\ auth_state.refresh_token # None)
                => /\ task'[t].pc = "ert_await"
                   /\ task'[t].refresh_calls = task[t].refresh_calls + 1
                   /\ net'.refresh_calls = net.refresh_calls + 1
          /\ (task[t].pc = "ert_write_end" /\ task'[t].pc # "ert_write_end")
                => /\ lock.writer = {t}
                   /\ auth_state' = task[t].token[1]]_vars

C11_Witness ==
    /\ auto_refresh
    /\ net.refresh_calls = 2
    /\ \A t \in Tasks :
          /\ task[t].op = "request"
          /\ task[t].token_expired
          /\ task[t].pc = "ert_await"
          /\ task[t].refresh_calls = 1
    /\ task[1].secret = task[2].secret
    /\ task[1].exchange_no # task[2].exchange_no

\* The tokens that were stored whole: the token in the lock, or, while an
\* assignment `*lock = token` is half done, the one it replaces and the new one.
WholeTokens ==
    IF \E u \in Tasks : task[u].pc = "ert_write_end"
    THEN UNION {{task[u].replaced[1], task[u].token[1]} :
                    u \in {v \in Tasks : task[v].pc = "ert_write_end"}}
    ELSE {auth_state}

\* C12: token replacement is atomic.  A task that holds a read guard sees a
\* token that was stored whole, never the half-written one; the token of an
\* authenticated client changes only in a step of the task that holds the
\* write guard; and between the two reads of request (the expiry flag, then
\* the access secret) the token does not change.
C12_AtomicReplacement ==
    /\ [](\A t \in lock.readers : auth_state \in WholeTokens)
    /\ [][/\ (phase = "auth" /\ auth_state' # auth_state)
                => \E u \in Tasks : /\ lock.writer = {u}
                                    /\ lock.readers = {}
                                    /\ task[u].pc \in {"ert_write", "ert_write_end"}
                                    /\ task'[u].pc # task[u].pc
          /\ \A t \in Tasks :
                task[t].pc = "req_read_secret" => auth_state' = auth_state]_vars

C12_Witness ==
    \E t, u \in Tasks :
        /\ task[u].pc = "ert_write_end"
        /\ auth_state \notin {task[u].replaced[1], task[u].token[1]}
        /\ task[t].pc = "req_start"
        /\ task[t].op = "request"

\* C13: the token of an authenticated client satisfies
\* expires_at = created_at + expires_in, whatever constructor built the client
\* (the token given to from_access_token built by Token::new or read back by
\* deserialization) and after any refreshes.
C13_ExpiresAtDerived ==
    (phase = "auth" /\ lock.writer = {})
        => auth_state.expires_at = auth_state.created_at + auth_state.expires_in

\* C14: after a successful authenticate (authorization code, PKCE or client
\* credentials) whose response has expires_in > 0, and until a refresh replaces
\* the token: the access secret is the one of the response, the token is
\* refreshable exactly when the response had a refresh token, created_at is the
\* instant at which the exchange completed, and the token is not expired before
\* expires_in seconds have passed since then.
C14_AuthenticatedToken ==
    /\ []((phase = "auth" /\ ctor.resp # <<>> /\ net.refresh_calls = 0)
            => (ctor.resp[1].expires_in > 0
                  => /\ auth_state.access_token = ctor.resp[1].access_token
                     /\ is_refreshable(auth_state) <=> (ctor.resp[1].refresh_token # None)
                     /\ auth_state.expires_in = ctor.resp[1].expires_in
                     /\ (now < auth_state.created_at + ctor.resp[1].expires_in)
                            => ~is_expired(auth_state, now)))
    /\ [][(phase # "auth" /\ phase' = "auth" /\ ctor'.resp # <<>>)
            => auth_state'.created_at = now']_vars

C14_Witness ==
    /\ phase = "auth"
    /\ ctor.name = "authenticate"
    /\ auth_flow.kind = "AuthCodePkceFlow"
    /\ ctor.resp # <<>>
    /\ ctor.resp[1].refresh_token # None
    /\ is_refreshable(auth_state)
    /\ auth_state.created_at > StartTime
    /\ ~is_expired(auth_state, now)
    /\ net.refresh_calls = 0

\* The smaller of two numbers.
Min(a, b) == IF a <= b THEN a ELSE b

\* C15: for every expires_in of u64 and every created_at, Token::new and
\* set_timestamps do not panic and yield
\* expires_at = created_at + min(expires_in, i64::MAX), clamped to the last
\* representable instant.
C15_ExpiryArithmeticClamps ==
    unit.out # <<>>
        => /\ ~unit.out[1].panic
           /\ unit.out[1].expires_at =
                 Min(unit.arg[1] + Min(unit.arg[2], I64Max), MaxDateTime)

\* C16: the flag request reads with is_expired is true exactly when the clock,
\* read at that call, is at or after expires_at; and while the token of the
\* client stays the same, an expired token stays expired.
C16_IsExpired ==
    /\ [](\A t \in Tasks :
            task[t].pc = "req_read_secret"
                => (task[t].token_expired <=> now >= auth_state.expires_at))
    /\ [][(phase = "auth" /\ is_expired(auth_state, now) /\ auth_state' = auth_state)
            => is_expired(auth_state', now')]_vars

C16_Witness ==
    \E t, u \in Tasks :
        /\ task[t].op = "request"
        /\ task[t].pc = "req_await"
        /\ ~task[t].token_expired
        /\ task[t].secret = auth_state.access_token
        /\ task[u].op = "request"
        /\ task[u].pc = "req_read_secret"
        /\ task[u].token_expired
        /\ now = auth_state.expires_at


\* C17: for every 2xx response whose body was read, whatever the body (empty,
\* JSON, text that is not JSON, bytes that are not UTF-8), request with
\* target type Nil returns Ok(Nil).
C17_NilAlwaysDecodes ==
    (/\ unit.fn = "Client::request"
     /\ unit.out # <<>>
     /\ unit.arg[1] = "Nil"
     /\ unit.arg[2].success
     /\ unit.arg[2].read)
        => /\ unit.out[1].kind = "Ok"
           /\ unit.out[1].value = "Nil"

\* C17 witness: a 2xx response whose body is not UTF-8 has been decoded into
\* Nil by the second attempt.
C17_Witness ==
    /\ unit.fn = "Client::request"
    /\ unit.out # <<>>
    /\ unit.arg[1] = "Nil"
    /\ unit.arg[2].success
    /\ unit.arg[2].read
    /\ ~IsUtf8(unit.arg[2].body)
    /\ unit.out[1].kind = "Ok"
    /\ unit.out[1].attempts = 2

\* C18: on a 2xx response the JSON decode is tried first and its value
\* returned; only when it fails is the decode from the raw bytes tried; when
\* both fail the result is never Ok: Deserialization with the error of the JSON
\* attempt and the body text if the bytes are UTF-8, InvalidResponse if not.
C18_DecodeOrder ==
    (/\ unit.fn = "Client::request"
     /\ unit.out # <<>>
     /\ unit.arg[2].success
     /\ unit.arg[2].read)
        => LET T == unit.arg[1]
               body == unit.arg[2].body
               json == FromSlice(T, body)
               raw == FromBytes(T, body)
               out == unit.out[1] IN
           /\ json.ok =>
                /\ out.kind = "Ok"
                /\ out.attempts = 1
                /\ out.value = json.value
           /\ (~json.ok /\ raw.ok) =>
                /\ out.kind = "Ok"
                /\ out.attempts = 2
                /\ out.value = raw.value
           /\ (~json.ok /\ ~raw.ok) =>
                /\ out.kind # "Ok"
                /\ IsUtf8(body) =>
                     /\ out.kind = "Deserialization"
                     /\ out.source = json.err
                     /\ out.body = body
                /\ ~IsUtf8(body) => out.kind = "InvalidResponse"

\* C18 witness: both attempts failed with different errors on a UTF-8 body,
\* and Deserialization was returned.
C18_Witness ==
    /\ unit.fn = "Client::request"
    /\ unit.out # <<>>
    /\ unit.arg[2].success
    /\ unit.arg[2].read
    /\ unit.out[1].kind = "Deserialization"
    /\ FromSlice(unit.arg[1], unit.arg[2].body).err
         # FromBytes(unit.arg[1], unit.arg[2].body).err

\* C19: on a response that is not 2xx request never returns Ok; a body that
\* parses as the error envelope gives Spotify with the status and the message
\* of the envelope; any other body, or one that cannot be read, gives the
\* error of the HTTP client.
C19_ErrorEnvelope ==
    (/\ unit.fn = "Client::request"
     /\ unit.out # <<>>
     /\ ~unit.arg[2].success)
        => LET res == unit.arg[2]
               b == TrimStart(res.body)
               parses == /\ res.read
                         /\ b # <<>>
                         /\ Head(b) \in {"env429", "env404"}
                         /\ \A i \in 2 .. Len(b) : b[i] = WS
               out == unit.out[1] IN
           /\ out.kind # "Ok"
           /\ parses =>
                /\ out.kind = "Spotify"
                /\ out.status = Envelopes[Head(b)].status
                /\ out.description = Envelopes[Head(b)].message
           /\ ~parses => out.kind = "Http"

\* C19 witness: the envelope with status 429 and message "rate limited" came
\* with a response that is not 2xx, and Spotify{429, "rate limited"} came out.
C19_Witness ==
    /\ unit.fn = "Client::request"
    /\ unit.out # <<>>
    /\ ~unit.arg[2].success
    /\ unit.arg[2].read
    /\ unit.arg[2].body = <<"env429">>
    /\ unit.out[1] = [kind |-> "Spotify", status |-> 429, description |-> "rate limited"]


\* C20: AuthCodeClient::new and AuthCodePkceClient::new send nothing over the
\* network, leave the client Unauthenticated and store as CSRF secret the state
\* value of the URL they return; authenticate called with the state value read
\* out of that URL passes the comparison and sends the code exchange.
C20_CsrfRoundTrip ==
    [][/\ (/\ phase = "start"
           /\ ctor'.name \in {"AuthCodeClient::new", "AuthCodePkceClient::new"})
            => /\ net' = net
               /\ phase' = "unauth"
               /\ auth_state' = Unauthenticated
               /\ auth_flow'.csrf_token = FormUrlDecode(ctor'.url_state)
       /\ (/\ phase = "unauth"
           /\ phase' # "unauth"
           /\ ctor'.csrf_state = FormUrlDecode(ctor.url_state))
            => /\ phase' = "exchanging"
               /\ ctor'.result = None
               /\ net'.token_calls = net.token_calls + 1]_vars

\* C20 witness: a PKCE client built around the secret "ba" was handed the
\* state value of its URL and is waiting for the token endpoint, which has seen
\* one call.
C20_Witness ==
    /\ phase = "exchanging"
    /\ auth_flow.kind = "AuthCodePkceFlow"
    /\ auth_flow.csrf_token = <<"b", "a">>
    /\ ctor.url_state = <<"b", "a">>
    /\ ctor.csrf_state = FormUrlDecode(ctor.url_state)
    /\ net.token_calls = 1
    /\ net.calls = 0


\* C21: from the unauthenticated client to the authenticated one that a
\* successful authenticate returns, the flow variant, its CSRF secret and
\* auto_refresh are carried over and only the authentication state changes,
\* from Unauthenticated to the Token; no step of request or
\* exchange_refresh_token changes auto_refresh or the flow afterwards.
C21_AuthenticateFrame ==
    [][/\ (phase \in {"unauth", "exchanging"} /\ phase' \in {"exchanging", "auth"})
            => /\ auto_refresh' = auto_refresh
               /\ auth_flow'.kind = auth_flow.kind
               /\ auth_flow'.csrf_token = auth_flow.csrf_token
               /\ auth_state = Unauthenticated
               /\ IF phase' = "auth"
                  THEN "access_token" \in DOMAIN auth_state'
                  ELSE auth_state' = Unauthenticated
       /\ (phase = "auth")
            => /\ phase' = "auth"
               /\ auto_refresh' = auto_refresh
               /\ auth_flow' = auth_flow]_vars

\* C21 witness: a client built with auto_refresh on was authenticated and has
\* since refreshed its token in a request, with the flag and the flow as new
\* made them.
C21_Witness ==
    /\ phase = "auth"
    /\ ctor.name = "authenticate"
    /\ ctor.result = "Ok"
    /\ auto_refresh
    /\ auth_flow.kind = "AuthCodeFlow"
    /\ auth_flow.csrf_token \in CsrfSecrets
    /\ \E t \in Tasks : /\ task[t].op = "request"
                        /\ task[t].pc = "done"
                        /\ task[t].refresh_calls = 1


\* C22: each from_access_token sends exactly one probe request, bearing the
\* access secret of the supplied token; it returns an authenticated client only
\* on a 2xx answer and an error and no client otherwise; the client stores the
\* supplied token as it was handed in, timestamps included.
C22_ProbeThenStore ==
    [][(phase = "start" /\ phase' # "start")
            => /\ unit'.fn \in FromAccessTokenNames
               /\ ctor'.name = unit'.fn
               /\ net' = [net EXCEPT !.probe_calls = 1]
               /\ ctor'.probe_bearer = unit'.arg[2].access_token
               /\ (phase' = "auth") <=> (ctor'.probe = <<"2xx">>)
               /\ IF phase' = "auth"
                  THEN /\ ctor'.result = "Ok"
                       /\ auth_state' = unit'.arg[2]
                  ELSE /\ phase' = "failed"
                       /\ ctor'.result \in {"Http", "Spotify"}
                       /\ auth_state' = Unauthenticated]_vars

\* C22 witness: ClientCredsClient::from_access_token was handed a token
\* created before the program started; the probe was answered 2xx and the
\* client holds that token with its old timestamps.
C22_Witness ==
    /\ unit.fn = "ClientCredsClient::from_access_token"
    /\ phase = "auth"
    /\ ctor.probe = <<"2xx">>
    /\ net.probe_calls = 1
    /\ net.calls = 0
    /\ auth_state = unit.arg[2]
    /\ auth_state.created_at = Epoch
    /\ auth_state.created_at < now


\* The link get_next (resp. get_previous) was called to follow, if any.
LinkFollowed ==
    LinkOf(unit.arg[1], unit.arg[2],
           IF unit.fn = "Page::get_next" THEN "next" ELSE "previous")

RECURSIVE ItemsOfPages(_, _)
ItemsOfPages(a, b) == IF a > b THEN <<>> ELSE ItemsOf(a) \o ItemsOfPages(a + 1, b)

\* C24: get_remaining returns exactly the items of the pages after the
\* current one (those reached over the next links), in page order.
C24_RemainingItems ==
    (/\ unit.fn = "Page::get_remaining"
     /\ unit.pc = "done"
     /\ unit.out[1].kind = "Ok")
        => unit.out[1].items = ItemsOfPages(unit.arg[2] + 1, unit.arg[1])

\* C25: on a consistently linked collection get_all returns the items of
\* every page, those of each page once, in increasing page order; an error of
\* a page fetch other than NoRemainingPages is what the call returns.
C25_AllItemsInOrder ==
    (unit.fn = "Page::get_all" /\ unit.pc = "done")
        => /\ unit.out[1].kind # "NoRemainingPages"
           /\ unit.out[1].kind = "Ok"
                => unit.out[1].items = ItemsOfPages(1, unit.arg[1])


\* C26: a refresh whose response has no refresh token does not replace a newer
\* refresh secret: when its write completes, the stored refresh secret is the
\* one the lock held immediately before the write, also when another refresh
\* stored a rotated secret after this one had read its own.
C26_NewerRefreshSecretKept ==
    [][\A t \in Tasks :
        (/\ task[t].pc = "ert_write_end"
         /\ task'[t].pc # "ert_write_end"
         /\ task[t].resp_refresh = None)
            => auth_state'.refresh_token = task[t].replaced[1].refresh_token]_vars


\* C27: a call of request sends at most one refresh exchange and at most one
\* resource request; after the refresh it goes on to send the request whether
\* or not the new token is expired; and with the network answering, the call
\* ends.
C27_RequestBounded ==
    /\ [](\A t \in Tasks :
            task[t].op = "request"
                => /\ task[t].refresh_calls <= 1
                   /\ task[t].api_calls <= 1)
    /\ [][\A t \in Tasks :
            (task[t].pc = "req_log" /\ task'[t].pc # "req_log")
                => /\ task'[t].pc = "req_await"
                   /\ task'[t].api_calls = 1
                   /\ task'[t].refresh_calls = 1]_vars
    /\ \A t \in Tasks :
            (task[t].op = "request" /\ task[t].pc # "done")
                ~> (task[t].op = "request" /\ task[t].pc = "done")

\* C27 witness: a request refreshed the token, the new token was expired when
\* it came (expires_in = 0), and the request went out all the same after that
\* one refresh.
C27_Witness ==
    \E t \in Tasks :
        /\ task[t].op = "request"
        /\ task[t].pc = "req_await"
        /\ task[t].stored # NoToken
        /\ auth_state = task[t].stored[1]
        /\ auth_state.expires_in = 0
        /\ is_expired(auth_state, now)
        /\ task[t].refresh_calls = 1
        /\ task[t].api_calls = 1


\* C28: ClientCredsClient::authenticate and ClientCredsClient::from_access_token
\* set auto_refresh to false; the from_access_token of the AuthCode and PKCE
\* clients set it to the requested flag and the token having a refresh secret.
\* So on a client of these four constructors a request that finds the token
\* expired and without refresh secret returns ExpiredToken, and no request
\* returns RefreshUnavailable.
C28_AutoRefreshGated ==
    /\ [][(phase = "start" /\ phase' = "auth")
            => auto_refresh' =
                 IF ctor'.name \in {"ClientCredsClient::authenticate",
                                    "ClientCredsClient::from_access_token"}
                 THEN FALSE
                 ELSE unit'.arg[1] /\ unit'.arg[2].refresh_token # None]_vars
    /\ [][\A t \in Tasks :
            (/\ task[t].pc = "req_read_secret"
             /\ task'[t].pc # "req_read_secret"
             /\ task[t].token_expired
             /\ auth_state.refresh_token = None)
                => /\ task'[t].pc = "done"
                   /\ task'[t].result = "ExpiredToken"
                   /\ task'[t].refresh_calls = 0
                   /\ task'[t].api_calls = 0]_vars
    /\ [](\A t \in Tasks :
            task[t].op = "request"
                => /\ task[t].result # "RefreshUnavailable"
                   /\ task[t].ert_result # "RefreshUnavailable")

\* C28 witness: AuthCodeClient::from_access_token was asked for auto_refresh
\* with a token that has no refresh secret; the flag is off and a request on
\* the expired token returned ExpiredToken.
C28_Witness ==
    /\ unit.fn = "AuthCodeClient::from_access_token"
    /\ unit.arg[1]
    /\ unit.arg[2].refresh_token = None
    /\ ~auto_refresh
    /\ \E t \in Tasks : /\ task[t].op = "request"
                        /\ task[t].pc = "done"
                        /\ task[t].token_expired
                        /\ task[t].result = "ExpiredToken"


\* C29: each seed setter of RecommendationsEndpoint writes the query field of
\* its own name and leaves the other two seed fields, the seed the builder was
\* created with among them, as they were; seed_artists on a builder seeded
\* with genres or tracks sets seed_artists and leaves seed_genres alone.
C29_SeedSettersFrame ==
    [][LET old == unit.out[1]
           new == unit'.out[1]
           set == <<query_list(unit'.arg[1])>> IN
       /\ new.marker = old.marker
       /\ unit'.fn = "seed_artists"
            => /\ new.seed_artists = set
               /\ new.seed_genres = old.seed_genres
               /\ new.seed_tracks = old.seed_tracks
       /\ unit'.fn = "seed_genres"
            => /\ new.seed_genres = set
               /\ new.seed_artists = old.seed_artists
               /\ new.seed_tracks = old.seed_tracks
       /\ unit'.fn = "seed_tracks"
            => /\ new.seed_tracks = set
               /\ new.seed_artists = old.seed_artists
               /\ new.seed_genres = old.seed_genres]_vars


\* ------------------------------------------------------------------------
\* The earlier client (src/src): one owner, &mut self, no lock
\* ------------------------------------------------------------------------

\* The flows of the earlier client.
EarlierFlows == {"AuthCodeFlow", "AuthCodePkceFlow", "ClientCredsFlow"}

\* Token-endpoint bodies of the earlier client's n-th exchange; the
\* client-credentials grant carries no refresh token.
EarlierResponses(flow, n) ==
    [access_token  : {AccessSecret(n)},
     refresh_token : IF flow = "ClientCredsFlow" THEN {None} ELSE {None, "RT1"},
     expires_in    : ExpiresIns]

\* serde deserialization of the earlier Token: created_at and expires_at are
\* both #[serde(skip)] and take DateTime<Utc>::default().
EarlierDeserialize(resp) ==
    [access_token  |-> resp.access_token,
     refresh_token |-> resp.refresh_token,
     expires_in    |-> resp.expires_in,
     created_at    |-> Epoch,
     expires_at    |-> Epoch]

\* What each authenticate of the earlier client does with the deserialized
\* token before storing it: the two code flows call set_timestamps, the
\* client-credentials flow stores it as it was deserialized.
EarlierStamp(flow, tok, t) ==
    IF flow = "ClientCredsFlow" THEN tok ELSE set_timestamps(tok, t)

\* The auto_refresh of the client authenticate returns.
EarlierAutoRefresh(flow, self_auto_refresh) ==
    IF flow = "ClientCredsFlow" THEN FALSE ELSE self_auto_refresh

\* No earlier client exists yet.
EarlierInit ==
    /\ NoClient
    /\ unit = [fn |-> None, arg |-> <<>>, out |-> <<>>, at |-> StartTime,
               exchanges |-> 0, client |-> <<>>]

EarlierFrame == UNCHANGED <<phase, auto_refresh, auth_state, auth_flow, lock, net, ctor, task>>

\* Client<UnAuthenticated, F, _>::authenticate of the three flows, and
\* from_refresh_token (which stamps the token like the code flows).
EarlierAuthenticate ==
    /\ unit.client = <<>>
    /\ \E flow \in EarlierFlows, auto \in BOOLEAN, fn \in {"authenticate", "from_refresh_token"} :
         /\ fn = "from_refresh_token" => flow # "ClientCredsFlow"
         /\ \E resp \in EarlierResponses(flow, 1) :
              unit' = [fn |-> fn, arg |-> <<flow, resp>>, out |-> <<"Ok">>, at |-> now,
                       exchanges |-> 1,
                       client |-> <<[auto_refresh |-> IF fn = "authenticate"
                                                      THEN EarlierAutoRefresh(flow, auto)
                                                      ELSE auto,
                                     flow |-> flow,
                                     auth |-> IF fn = "authenticate"
                                              THEN EarlierStamp(flow, EarlierDeserialize(resp), now)
                                              ELSE set_timestamps(EarlierDeserialize(resp), now)]>>]
    /\ now' = now
    /\ EarlierFrame

\* The owner writes the public field auto_refresh.
EarlierSetAutoRefresh ==
    /\ unit.client # <<>>
    /\ \E b \in BOOLEAN :
         /\ b # unit.client[1].auto_refresh
         /\ unit' = [unit EXCEPT !.fn = "auto_refresh", !.arg = <<b>>, !.out = <<>>, !.at = now,
                                 !.client[1].auto_refresh = b]
    /\ now' = now
    /\ EarlierFrame

\* The outcomes of Client::request_refresh_token on client c at instant t:
\* what it returns and the client it leaves.
EarlierRefreshOutcomes(c, n, t) ==
    IF c.auth.refresh_token = None
    THEN {[result |-> "RefreshUnavailable", client |-> c, exchanged |-> FALSE]}
    ELSE {[result |-> "Authentication", client |-> c, exchanged |-> FALSE]}
         \cup {[result |-> "Ok",
                client |-> [c EXCEPT !.auth = set_timestamps(EarlierDeserialize(resp), t)],
                exchanged |-> TRUE] : resp \in EarlierResponses(c.flow, n)}

\* Client::request_refresh_token called by the owner.
EarlierRequestRefreshToken ==
    /\ unit.client # <<>>
    /\ unit.exchanges <= MaxCalls
    /\ \E o \in EarlierRefreshOutcomes(unit.client[1], unit.exchanges + 1, now) :
         unit' = [unit EXCEPT !.fn = "request_refresh_token", !.arg = <<>>,
                              !.out = <<o.result>>, !.at = now,
                              !.exchanges = IF o.exchanged THEN @ + 1 ELSE @,
                              !.client = <<o.client>>]
    /\ now' = now
    /\ EarlierFrame

\* What the resource request of Client::request returns once it is sent.
EarlierSendResults == {"Ok", "Spotify", "Http"}

\* The outcomes of Client::request on client c at instant t.
EarlierRequestOutcomes(c, n, t) ==
    IF is_expired(c.auth, t)
    THEN IF c.auto_refresh
         THEN UNION {IF o.result = "Ok"
                     THEN {[o EXCEPT !.result = r] : r \in EarlierSendResults}
                     ELSE {o} : o \in EarlierRefreshOutcomes(c, n, t)}
         ELSE {[result |-> "ExpiredToken", client |-> c, exchanged |-> FALSE]}
    ELSE {[result |-> r, client |-> c, exchanged |-> FALSE] : r \in EarlierSendResults}

\* Client::request
EarlierRequest ==
    /\ unit.client # <<>>
    /\ unit.exchanges <= MaxCalls
    /\ \E o \in EarlierRequestOutcomes(unit.client[1], unit.exchanges + 1, now) :
         unit' = [unit EXCEPT !.fn = "request", !.arg = <<>>,
                              !.out = <<o.result>>, !.at = now,
                              !.exchanges = IF o.exchanged THEN @ + 1 ELSE @,
                              !.client = <<o.client>>]
    /\ now' = now
    /\ EarlierFrame

\* The wall clock advances between two calls of the owner.
EarlierTick ==
    /\ unit.client # <<>>
    /\ now < MaxTime
    /\ now' = now + 1
    /\ UNCHANGED unit
    /\ EarlierFrame

EarlierNext ==
    \/ EarlierAuthenticate
    \/ EarlierSetAutoRefresh
    \/ EarlierRequestRefreshToken
    \/ EarlierRequest
    \/ EarlierTick

EarlierSpec == EarlierInit /\ [][EarlierNext]_vars

\* C30: in the earlier client every successful token exchange, the
\* client-credentials exchange of authenticate included, stores a token
\* stamped at the instant of the exchange (created_at = now, expires_at =
\* created_at + expires_in), and a request issued at the instant of an
\* authenticate whose response has expires_in > 0 does not return ExpiredToken.
C30_EveryExchangeStamped ==
    /\ [][unit'.exchanges = unit.exchanges + 1
            => LET tok == unit'.client[1].auth IN
               /\ tok.created_at = now
               /\ tok.expires_at = ExpiresAt(tok.created_at, tok.expires_in)]_vars
    /\ [][(/\ unit.fn = "authenticate"
           /\ unit.at = now
           /\ unit.arg[2].expires_in > 0
           /\ unit'.fn = "request")
            => unit'.out # <<"ExpiredToken">>]_vars

====
